---------------------------- MODULE Spec2Model ----------------------------
(***************************************************************************)
(* A model of Tenable_Export_Suite.py: the flattener (flatten_dict), the   *)
(* chunk reader (ndjson_get), the export poller (poll_export_status), the  *)
(* three domain orchestrators and main.                                    *)
(*                                                                         *)
(* Four entry points are modelled, each with its own specification:        *)
(*   SpecFlatten  flatten_dict applied to a bounded nested mapping         *)
(*   SpecNdjson   the line loop of ndjson_get over a bounded chunk body    *)
(*   SpecPoll     poll_export_status called with any max_retries           *)
(*   Spec         main: the whole run, poller called with its default      *)
(* The variable `harness` records which entry point was called.            *)
(***************************************************************************)
EXTENDS Integers, Sequences, FiniteSets, TLC

VARIABLES
    harness,          \* entry point: "main", "poll", "flatten", "ndjson", "sanitize"
    pc,               \* position of the (single) thread of control
    \* ---- main -------------------------------------------------------
    disable_was,      \* args.disable_was
    outputs,          \* args.outputs, as a set
    dom,              \* domain whose orchestrator is running
    results,          \* vm_rows / was_rows / assets_rows once assigned
    written,          \* artifacts produced by the writers
    error,            \* the exception that ended the process, or NoError
    last_http,        \* the most recent HTTP exchange
    \* ---- orchestrator locals ----------------------------------------
    export_uuid,
    status, chunks, total_count,   \* the triple returned by the poller
    idx,              \* position of the chunk loop in `chunks`
    all_rows,
    chunk_requests,   \* chunk ids requested so far by this orchestrator
    terminal_counts,  \* "total", "total_count", "count" of the terminal answer
    warnings,         \* warnings logged by this orchestrator
    \* ---- poll_export_status locals ----------------------------------
    max_retries, retries,
    data,             \* body of the latest status response
    status_requests,  \* status requests issued by this call
    slept,            \* time-units spent in time.sleep by this call
    invalid_chunks,   \* chunk ids this call logged as invalid, in order
    \* ---- flatten_dict -----------------------------------------------
    fl_in, fl_out,
    \* ---- ndjson_get line loop ---------------------------------------
    nd_lines, line_num, rows, nd_warnings,
    \* ---- sanitize_for_excel / sanitize_for_parquet --------------------
    sanitizer,        \* the sanitizer called
    df,               \* the frame passed to it
    df_sanitized,     \* the frame it returns
    df_again          \* the frame it returns when called on df_sanitized

mainVars == <<disable_was, outputs, dom, results, written, error, last_http>>
orchVars == <<export_uuid, status, chunks, total_count, idx, all_rows,
              chunk_requests, terminal_counts, warnings>>
pollVars == <<max_retries, retries, data, status_requests, slept,
              invalid_chunks>>
flatVars == <<fl_in, fl_out>>
ndVars   == <<nd_lines, line_num, rows, nd_warnings>>
sanVars  == <<sanitizer, df, df_sanitized, df_again>>
vars     == <<harness, pc, mainVars, orchVars, pollVars, flatVars, ndVars,
              sanVars>>

---------------------------------------------------------------------------
(* Bounds of the model.                                                    *)
MaxNodes    == 3    \* nodes below the root of a flatten_dict input
MaxLines    == 3    \* lines of a chunk body in SpecNdjson
MaxAttempts == 3    \* largest max_retries in SpecPoll
MaxChunks   == 2    \* longest chunks_available list

---------------------------------------------------------------------------
(* JSON values, as json.loads builds them.                                 *)
Num(n)      == [t |-> "num", n |-> n]
Str(s)      == [t |-> "str", s |-> s]
Null        == [t |-> "null"]
Arr(items)  == [t |-> "arr", items |-> items]
Obj(kv)     == [t |-> "obj", kv |-> kv]       \* kv: entries in insertion order
Float(s)    == [t |-> "float", s |-> s]       \* s: the float's repr
Entry(k, v) == [k |-> k, v |-> v]

IsDict(v) == v.t = "obj"
IsList(v) == v.t = "arr"

KeysOf(kv) == {kv[i].k : i \in 1..Len(kv)}

(* str(int) for a non-negative integer.                                    *)
DigitStr(d) ==
    CASE d = 0 -> "0" [] d = 1 -> "1" [] d = 2 -> "2" [] d = 3 -> "3"
      [] d = 4 -> "4" [] d = 5 -> "5" [] d = 6 -> "6" [] d = 7 -> "7"
      [] d = 8 -> "8" [] d = 9 -> "9"

RECURSIVE IntStr(_)
IntStr(n) == IF n < 10 THEN DigitStr(n) ELSE IntStr(n \div 10) \o DigitStr(n % 10)

(* json.dumps with its default separators ", " and ": ".  The strings of   *)
(* the model hold no character that json.dumps escapes.                    *)
RECURSIVE json_dumps(_)
RECURSIVE DumpItems(_)
RECURSIVE DumpEntries(_)
DumpItems(items) ==
    IF items = <<>> THEN ""
    ELSE json_dumps(Head(items))
         \o (IF Tail(items) = <<>> THEN "" ELSE ", " \o DumpItems(Tail(items)))

DumpEntries(kv) ==
    IF kv = <<>> THEN ""
    ELSE "\"" \o Head(kv).k \o "\": " \o json_dumps(Head(kv).v)
         \o (IF Tail(kv) = <<>> THEN "" ELSE ", " \o DumpEntries(Tail(kv)))

json_dumps(v) ==
    CASE v.t = "num"  -> IntStr(v.n)
      [] v.t = "str"  -> "\"" \o v.s \o "\""
      [] v.t = "null" -> "null"
      [] v.t = "arr"  -> "[" \o DumpItems(v.items) \o "]"
      [] v.t = "obj"  -> "{" \o DumpEntries(v.kv) \o "}"

---------------------------------------------------------------------------
(* flatten_dict                                                            *)
sep == "_"

(* dict(items): a later pair with a key already present replaces the       *)
(* value and keeps the key's first position.                               *)
RECURSIVE DictPut(_, _)
DictPut(d, e) ==
    IF d = <<>> THEN <<e>>
    ELSE IF Head(d).k = e.k THEN <<e>> \o Tail(d)
    ELSE <<Head(d)>> \o DictPut(Tail(d), e)

RECURSIVE DictOf(_, _)
DictOf(items, acc) ==
    IF items = <<>> THEN acc ELSE DictOf(Tail(items), DictPut(acc, Head(items)))

dict(items) == DictOf(items, <<>>)

(* new_key = f"{parent_key}{sep}{k}" if parent_key else k                  *)
new_key(parent_key, k) ==
    IF parent_key # "" THEN parent_key \o sep \o k ELSE k

RECURSIVE flatten_dict(_, _)
RECURSIVE flatten_items(_, _)
(* The list `items` after the loop over d.items().                         *)
flatten_items(d, parent_key) ==
    IF d = <<>> THEN <<>>
    ELSE LET k  == Head(d).k
             v  == Head(d).v
             nk == new_key(parent_key, k)
             here ==
                 IF IsDict(v) THEN flatten_dict(v.kv, nk)
                 ELSE IF IsList(v) THEN
                     IF Len(v.items) = 0 THEN <<Entry(nk, v)>>
                     ELSE IF IsDict(v.items[1]) THEN <<Entry(nk, Str(json_dumps(v)))>>
                     ELSE <<Entry(nk, v)>>
                 ELSE <<Entry(nk, v)>>
         IN  here \o flatten_items(Tail(d), parent_key)

flatten_dict(d, parent_key) == dict(flatten_items(d, parent_key))

---------------------------------------------------------------------------
(* Inputs of flatten_dict: nested mappings with at most MaxNodes nodes     *)
(* below the root.                                                         *)
Keys == {"a", "a_a", ""}

XObj == Obj(<<Entry("x", Num(1))>>)

ScalarLeaves  == {Num(1), Null}
ScalarSeqs    == {Arr(<<>>), Arr(<<Num(1), Num(2)>>)}
MappingSeqs   == {Arr(<<XObj>>), Arr(<<Num(1), XObj>>)}
LeafValues    == ScalarLeaves \cup ScalarSeqs \cup MappingSeqs

RECURSIVE KVsOf(_)
RECURSIVE ValuesOf(_)
(* The values with exactly n nodes: a leaf is one node, a mapping is one   *)
(* node plus the nodes of its entries.                                     *)
ValuesOf(n) ==
    IF n < 1 THEN {}
    ELSE (IF n = 1 THEN LeafValues ELSE {}) \cup {Obj(kv) : kv \in KVsOf(n - 1)}

(* The key/value sequences with distinct keys and exactly n nodes, in      *)
(* every insertion order.                                                  *)
KVsOf(n) ==
    IF n = 0 THEN {<<>>}
    ELSE UNION { LET vs == ValuesOf(i)
                     rs == KVsOf(n - i)
                 IN  { <<Entry(x[1], x[2])>> \o x[3] :
                         x \in {y \in Keys \X vs \X rs : y[1] \notin KeysOf(y[3])} } :
                 i \in 1..n }

(* fl_in is a nested mapping with at most n nodes below the root: empty,   *)
(* or a first entry followed by the remaining entries.                     *)
FlattenInputs(n) ==
    \E s \in 0..n :
        \/ s = 0 /\ fl_in = <<>>
        \/ \E i \in 1..s : \E k \in Keys : \E v \in ValuesOf(i) :
               \E r \in KVsOf(s - i) :
                   k \notin KeysOf(r) /\ fl_in = <<Entry(k, v)>> \o r

(* The leaves of a nested mapping: every value that is not a mapping.      *)
RECURSIVE LeafCount(_)
LeafCount(d) ==
    IF d = <<>> THEN 0
    ELSE (IF IsDict(Head(d).v) THEN LeafCount(Head(d).v.kv) ELSE 1)
         + LeafCount(Tail(d))

(* Whether a sequence value holds a mapping anywhere in the input.         *)
RECURSIVE HasMappingSeq(_)
HasMappingSeq(d) ==
    \E i \in 1..Len(d) :
        LET v == d[i].v IN
        \/ IsDict(v) /\ HasMappingSeq(v.kv)
        \/ IsList(v) /\ \E j \in 1..Len(v.items) : IsDict(v.items[j])

NotRun == "-"      \* value of a variable the entry point does not use

MainIdle ==
    /\ disable_was = NotRun /\ outputs = NotRun /\ dom = NotRun
    /\ results = NotRun /\ written = NotRun /\ error = NotRun
    /\ last_http = NotRun
OrchIdle ==
    /\ export_uuid = NotRun /\ status = NotRun /\ chunks = NotRun
    /\ total_count = NotRun /\ idx = NotRun /\ all_rows = NotRun
    /\ chunk_requests = NotRun /\ warnings = NotRun
    /\ terminal_counts = NotRun
PollIdle ==
    /\ max_retries = NotRun /\ retries = NotRun /\ data = NotRun
    /\ status_requests = NotRun /\ slept = NotRun
    /\ invalid_chunks = NotRun
FlatIdle == fl_in = NotRun /\ fl_out = NotRun
NdIdle ==
    /\ nd_lines = NotRun /\ line_num = NotRun /\ rows = NotRun
    /\ nd_warnings = NotRun
SanIdle ==
    /\ sanitizer = NotRun /\ df = NotRun /\ df_sanitized = NotRun
    /\ df_again = NotRun

FlattenInit ==
    /\ harness = "flatten" /\ pc = "call"
    /\ FlattenInputs(MaxNodes) /\ fl_out = NotRun
    /\ MainIdle /\ OrchIdle /\ PollIdle /\ NdIdle /\ SanIdle

(* flatten_dict(record) called and returned.                               *)
Flatten ==
    /\ harness = "flatten" /\ pc = "call"
    /\ fl_out' = flatten_dict(fl_in, "")
    /\ pc' = "done"
    /\ UNCHANGED <<harness, fl_in, mainVars, orchVars, pollVars, ndVars, sanVars>>

NextFlatten == Flatten

SpecFlatten == FlattenInit /\ [][NextFlatten]_vars

---------------------------------------------------------------------------
(* ndjson_get: the loop over resp.iter_lines().  A line is blank, is not   *)
(* decodable by json.loads, or decodes to a JSON value.                    *)
BlankLine   == [kind |-> "blank"]
BadLine     == [kind |-> "malformed"]
JsonLine(v) == [kind |-> "json", val |-> v]

(* json.loads(line.decode("utf-8")): the value, or JSONDecodeError.        *)
json_loads(line) ==
    IF line.kind = "json" THEN [ok |-> TRUE, val |-> line.val]
    ELSE [ok |-> FALSE]

(* A wrapper record keyed "item".                                          *)
ValueRecord_item_key(v) == <<Entry("item", v)>>

ValueRecord(v) == <<Entry("value", v)>>          \* {"value": v}

(* line_records wrapping an array like a scalar.                          *)
line_records_wrap_arrays(line) ==
    IF line.kind = "blank" THEN <<>>
    ELSE LET r == json_loads(line) IN
         IF ~r.ok THEN <<>>
         ELSE IF IsDict(r.val) THEN <<flatten_dict(r.val.kv, "")>>
         ELSE <<ValueRecord(r.val)>>

(* The records one line appends to `rows`.                                 *)
line_records(line) ==
    IF line.kind = "blank" THEN <<>>                         \* if not line: continue
    ELSE LET r == json_loads(line) IN
         IF ~r.ok THEN <<>>                                  \* except JSONDecodeError
         ELSE IF IsDict(r.val) THEN <<flatten_dict(r.val.kv, "")>>
         ELSE IF IsList(r.val) THEN
             [i \in 1..Len(r.val.items) |->
                 IF IsDict(r.val.items[i])
                 THEN flatten_dict(r.val.items[i].kv, "")
                 ELSE ValueRecord(r.val.items[i])]
         ELSE <<ValueRecord(r.val)>>

(* Whether the line makes ndjson_get log a warning.                        *)
line_warns(line) == line.kind # "blank" /\ ~json_loads(line).ok

(* The list ndjson_get returns for a body whose request succeeded.         *)
RECURSIVE ndjson_rows(_)
ndjson_rows(lines) ==
    IF lines = <<>> THEN <<>>
    ELSE line_records(Head(lines)) \o ndjson_rows(Tail(lines))

LineChoices ==
    { BlankLine, BadLine,
      JsonLine(Obj(<<Entry("a", Num(1))>>)),
      JsonLine(Obj(<<Entry("a", Obj(<<Entry("b", Num(2))>>))>>)),
      JsonLine(Arr(<<>>)),
      JsonLine(Arr(<<Num(1), XObj>>)),
      JsonLine(Num(1)) }

SeqsUpTo(S, n) == UNION {[1..m -> S] : m \in 0..n}

NdjsonInit ==
    /\ harness = "ndjson" /\ pc = "lines"
    /\ nd_lines \in SeqsUpTo(LineChoices, MaxLines)
    /\ line_num = 1 /\ rows = <<>> /\ nd_warnings = <<>>
    /\ MainIdle /\ OrchIdle /\ PollIdle /\ FlatIdle /\ SanIdle

(* One iteration of the loop over the lines.                               *)
NdjsonLine ==
    /\ harness = "ndjson" /\ pc = "lines"
    /\ line_num <= Len(nd_lines)
    /\ rows' = rows \o line_records(nd_lines[line_num])
    /\ nd_warnings' = IF line_warns(nd_lines[line_num])
                      THEN Append(nd_warnings, line_num) ELSE nd_warnings
    /\ line_num' = line_num + 1
    /\ UNCHANGED <<harness, pc, nd_lines, mainVars, orchVars, pollVars, flatVars,
                   sanVars>>

(* return rows                                                             *)
NdjsonReturn ==
    /\ harness = "ndjson" /\ pc = "lines"
    /\ line_num > Len(nd_lines)
    /\ pc' = "done"
    /\ UNCHANGED <<harness, ndVars, mainVars, orchVars, pollVars, flatVars, sanVars>>

NextNdjson == NdjsonLine \/ NdjsonReturn

SpecNdjson == NdjsonInit /\ [][NextNdjson]_vars

---------------------------------------------------------------------------
(* HTTP and the Python values the poller and the orchestrators handle.     *)
HttpCodes == {200, 403, 500}

(* raise_for_status raising for server errors only.                       *)
raise_for_status_5xx_only(code) == code >= 500 /\ code < 600

(* resp.raise_for_status() raises HTTPError for a 4xx or 5xx status.       *)
raise_for_status(code) == code >= 400 /\ code < 600

NoError == "none"
(* An HTTP exchange: the request's kind and domain, the status code of the *)
(* answer and, for a successful job-start, the values of the answer's      *)
(* "export_uuid" and "uuid".                                               *)
Http(kind, d, code, ids) == [kind |-> kind, dom |-> d, code |-> code, ids |-> ids]
NoHttp  == Http("none", NotRun, 0, <<>>)

None == -1          \* Python's None where an integer may stand
Truthy(x) == x # None /\ x # 0
PyOr(a, b) == IF Truthy(a) THEN a ELSE b             \* a or b

NoneStr == "<None>" \* Python's None where a string may stand

(* A test for None in place of the truth test.                            *)
TruthyStr_is_not_none(x) == x # NoneStr

TruthyStr(x) == x # NoneStr /\ x # ""
PyOrStr(a, b) == IF TruthyStr(a) THEN a ELSE b

Absent     == "<absent>"   \* the body has no "status" key
NullStatus == "<null>"     \* the body's "status" is null

(* str.upper() on the status strings of the model.                         *)
upper(s) ==
    CASE s = "finished"   -> "FINISHED"
      [] s = "Error"      -> "ERROR"
      [] s = "cancelled"  -> "CANCELLED"
      [] s = "Processing" -> "PROCESSING"
      [] OTHER            -> s

(* data.get("status", "").upper()                                          *)
status_of(body) == IF body.status = Absent THEN "" ELSE upper(body.status)

TerminalStatuses == {"FINISHED", "ERROR", "CANCELLED"}

(* int(c) for a chunk identifier: the integer, or the exception int()     *)
(* raises.  json.loads reads a number beyond the float range (1e999) as    *)
(* inf, and int(inf) raises OverflowError.                                 *)
py_int(c) ==
    CASE c.t = "num" -> [ok |-> TRUE, n |-> c.n, exc |-> NoError]
      [] c.t = "str" /\ c.s = "1" -> [ok |-> TRUE, n |-> 1, exc |-> NoError]
      [] c.t = "str" /\ c.s = "2" -> [ok |-> TRUE, n |-> 2, exc |-> NoError]
      [] c.t = "str"  -> [ok |-> FALSE, n |-> 0, exc |-> "ValueError"]
      [] c.t = "float" /\ c.s = "1.5" -> [ok |-> TRUE, n |-> 1, exc |-> NoError]
      [] c.t = "float" /\ c.s = "inf" -> [ok |-> FALSE, n |-> 0, exc |-> "OverflowError"]
      [] OTHER -> [ok |-> FALSE, n |-> 0, exc |-> "TypeError"]

(* except (ValueError, TypeError)                                          *)
CaughtByChunkLoop == {"ValueError", "TypeError"}

(* The first entry of `chunks` at which int(c) raises an exception the     *)
(* loop does not catch; 0 when there is none.                              *)
RECURSIVE first_uncaught(_, _)
first_uncaught(cs, i) ==
    IF i > Len(cs) THEN 0
    ELSE IF ~py_int(cs[i]).ok /\ py_int(cs[i]).exc \notin CaughtByChunkLoop THEN i
    ELSE first_uncaught(cs, i + 1)

(* The entries the loop logs as invalid and skips.                         *)
RECURSIVE chunk_warnings_of(_)
chunk_warnings_of(cs) ==
    IF cs = <<>> THEN <<>>
    ELSE (IF py_int(Head(cs)).ok THEN <<>> ELSE <<Head(cs)>>)
         \o chunk_warnings_of(Tail(cs))

(* chunk_list built by the loop over `chunks`.                             *)
RECURSIVE chunk_list_of(_)
chunk_list_of(cs) ==
    IF cs = <<>> THEN <<>>
    ELSE (IF py_int(Head(cs)).ok THEN <<py_int(Head(cs)).n>> ELSE <<>>)
         \o chunk_list_of(Tail(cs))

(* data.get("total") or data.get("total_count") or data.get("count") or None *)
total_count_of(body) ==
    PyOr(PyOr(PyOr(body.total, body.total_count), body.count), None)

(* The bodies a status endpoint may answer with.  chunks_available is a    *)
(* list; a missing or null one acts as the empty list.  A count triple is  *)
(* the values under "total", "total_count" and "count".                    *)
StatusBody(s, c, t) ==
    [status |-> s, chunks_available |-> c,
     total |-> t[1], total_count |-> t[2], count |-> t[3]]

StatusChoices   == {Absent, NullStatus, "FINISHED", "finished", "Error",
                    "cancelled", "Processing"}
ChunkEntries    == {Num(1), Str("2"), Str("x"), Null, Float("1.5"), Float("inf")}
CountTriples    == {<<None, None, None>>, <<0, None, None>>, <<2, None, None>>,
                    <<0, 2, None>>, <<None, 0, 1>>}

(* Every chunk list comes without counts; the count triples come with no   *)
(* chunk and with two chunks.                                              *)
PollStatusBodies ==
    {StatusBody(s, c, <<None, None, None>>) :
        s \in StatusChoices, c \in SeqsUpTo(ChunkEntries, MaxChunks)}
    \cup
    {StatusBody(s, c, t) : s \in StatusChoices,
                           c \in {<<>>, <<Num(1), Str("2")>>},
                           t \in CountTriples}

(* In a whole run the poller is called with 360 attempts; a non-terminal   *)
(* answer there carries no chunk list and no count.                        *)
MainChunkLists == {<<>>, <<Num(1)>>, <<Str("2"), Num(1)>>, <<Num(1), Null>>,
                   <<Float("inf")>>}

MainStatusBodies ==
    {StatusBody(s, <<>>, <<None, None, None>>) : s \in {"Processing", NullStatus}}
    \cup
    {StatusBody(s, c, t) : s \in {"FINISHED", "Error", "cancelled"},
                           c \in MainChunkLists,
                           t \in {<<None, None, None>>, <<0, None, None>>,
                                  <<None, None, 2>>}}

StatusBodies == IF harness = "poll" THEN PollStatusBodies ELSE MainStatusBodies

DefaultMaxRetries == 360
SleepSeconds      == 5

---------------------------------------------------------------------------
(* poll_export_status                                                      *)

(* The frame of a call of poll_export_status, at its first line.           *)
PollCalled(m) ==
    /\ max_retries' = m /\ retries' = 0 /\ data' = NotRun
    /\ status_requests' = 0 /\ slept' = 0 /\ invalid_chunks' = <<>>

(* The frame after the call returned to an orchestrator.                   *)
PollFramePopped ==
    /\ max_retries' = NotRun /\ retries' = NotRun /\ data' = NotRun
    /\ status_requests' = NotRun /\ slept' = NotRun
    /\ invalid_chunks' = NotRun

(* An exception nobody catches: it ends the call and, in a run, the run.   *)
Raise(e) == pc' = "aborted" /\ error' = e

(* is_terminal comparing the status as the server spelled it.             *)
is_terminal_case_sensitive(body) == body.status \in TerminalStatuses

(* Whether this status answer ends the polling loop.                       *)
is_terminal(body) == status_of(body) \in TerminalStatuses

(* The loop condition off by one.                                          *)
loop_continues_inclusive(r, m) == r <= m

(* A loop that never gives up.                                             *)
loop_continues_forever(r, m) == TRUE

(* The condition of the while loop.                                        *)
loop_continues(r, m) == r < m

(* One pass of the while loop: the status request, its answer and either   *)
(* the return or retries += 1 and time.sleep(5).                           *)
PollIteration ==
    /\ harness \in {"poll", "main"} /\ pc = "poll"
    /\ loop_continues(retries, max_retries)
    /\ \E code \in HttpCodes :
        /\ last_http' = Http("status", dom, code, <<>>)
        /\ IF raise_for_status(code)
           THEN /\ Raise("HTTPError")
                /\ status_requests' = status_requests + 1
                /\ UNCHANGED <<max_retries, retries, data, slept, invalid_chunks,
                               status, chunks, total_count, terminal_counts>>
           ELSE \E body \in StatusBodies :
                IF body.status = NullStatus
                THEN /\ Raise("AttributeError")        \* None.upper()
                     /\ status_requests' = status_requests + 1
                     /\ data' = body
                     /\ UNCHANGED <<max_retries, retries, slept, invalid_chunks,
                                    status, chunks, total_count, terminal_counts>>
                ELSE IF is_terminal(body)
                        /\ first_uncaught(body.chunks_available, 1) # 0
                THEN LET u == first_uncaught(body.chunks_available, 1) IN
                     /\ Raise(py_int(body.chunks_available[u]).exc)   \* int(c)
                     /\ status_requests' = status_requests + 1
                     /\ data' = body
                     /\ invalid_chunks' = chunk_warnings_of(
                                              SubSeq(body.chunks_available, 1, u - 1))
                     /\ UNCHANGED <<max_retries, retries, slept,
                                    status, chunks, total_count, terminal_counts>>
                ELSE IF is_terminal(body)
                THEN /\ pc' = "polled"
                     /\ terminal_counts' = <<body.total, body.total_count, body.count>>
                     /\ status' = status_of(body)
                     /\ chunks' = chunk_list_of(body.chunks_available)
                     /\ total_count' = total_count_of(body)
                     /\ IF harness = "main"
                        THEN PollFramePopped
                        ELSE /\ status_requests' = status_requests + 1
                             /\ data' = body
                             /\ invalid_chunks' =
                                    chunk_warnings_of(body.chunks_available)
                             /\ UNCHANGED <<max_retries, retries, slept>>
                     /\ UNCHANGED error
                ELSE /\ retries' = retries + 1
                     /\ slept' = slept + SleepSeconds
                     /\ status_requests' = status_requests + 1
                     /\ data' = body
                     /\ UNCHANGED <<pc, max_retries, error, invalid_chunks, status,
                                    chunks, total_count, terminal_counts>>
    /\ UNCHANGED <<harness, disable_was, outputs, dom, results, written,
                   export_uuid, idx, all_rows, chunk_requests, warnings,
                   flatVars, ndVars, sanVars>>

(* The loop ended with retries = max_retries: RuntimeError.                *)
PollTimeout ==
    /\ harness \in {"poll", "main"} /\ pc = "poll"
    /\ ~loop_continues(retries, max_retries)
    /\ Raise("PollTimeoutError")
    /\ UNCHANGED <<harness, disable_was, outputs, dom, results, written,
                   last_http, orchVars, pollVars, flatVars, ndVars, sanVars>>

PollInit ==
    /\ harness = "poll" /\ pc = "poll"
    /\ max_retries \in 0..MaxAttempts
    /\ retries = 0 /\ data = NotRun /\ status_requests = 0 /\ slept = 0
    /\ invalid_chunks = <<>>
    /\ status = NotRun /\ chunks = <<>> /\ total_count = None
    /\ terminal_counts = <<>>
    /\ error = NoError /\ last_http = NoHttp
    /\ disable_was = NotRun /\ outputs = NotRun /\ dom = NotRun
    /\ results = NotRun /\ written = NotRun
    /\ export_uuid = NotRun /\ idx = NotRun /\ all_rows = NotRun
    /\ chunk_requests = NotRun /\ warnings = NotRun
    /\ FlatIdle /\ NdIdle /\ SanIdle

NextPoll == PollIteration \/ PollTimeout

SpecPoll == PollInit /\ [][NextPoll]_vars

---------------------------------------------------------------------------
(* The domain orchestrators and main.                                      *)
OutputChoices == {{"excel", "parquet"}, {"duckdb"}}

UuidChoices == {NoneStr, "", "u1"}
StartBodies == [export_uuid : UuidChoices, uuid : UuidChoices]

(* The body of chunk `cid`: one undecodable line, or a record naming the   *)
(* chunk followed by a scalar line naming the chunk.                       *)
ChunkRow(cid)    == JsonLine(Obj(<<Entry("id", Num(cid))>>))
ChunkBodies(cid) == {<<BadLine>>, <<ChunkRow(cid), JsonLine(Num(cid))>>}

DatasetName(d) ==
    CASE d = "vm"     -> "VM_Vulnerabilities"
      [] d = "was"    -> "WAS_Vulnerabilities"
      [] d = "assets" -> "Tenable_VM_Assets"

(* The locals of an orchestrator before its first line ran.                *)
OrchFresh ==
    /\ export_uuid' = NotRun /\ status' = NotRun /\ chunks' = <<>>
    /\ total_count' = None /\ idx' = 0 /\ all_rows' = <<>>
    /\ chunk_requests' = <<>> /\ warnings' = {}
    /\ terminal_counts' = <<>>

MainInit ==
    /\ harness = "main" /\ pc = "start" /\ dom = "vm"
    /\ disable_was \in BOOLEAN /\ outputs \in OutputChoices
    /\ results = <<>> /\ written = {}
    /\ error = NoError /\ last_http = NoHttp
    /\ export_uuid = NotRun /\ status = NotRun /\ chunks = <<>>
    /\ total_count = None /\ idx = 0 /\ all_rows = <<>>
    /\ chunk_requests = <<>> /\ warnings = {}
    /\ terminal_counts = <<>>
    /\ PollIdle /\ FlatIdle /\ NdIdle /\ SanIdle

(* The job-start request of the running domain and what follows it, up to  *)
(* the poller's first line.  Only start_was_export tolerates a 403: it     *)
(* returns None and export_was_findings returns [].                        *)
StartExport(tolerates_403) ==
    /\ \E code \in HttpCodes :
        IF tolerates_403 /\ code = 403
        THEN /\ last_http' = Http("start", dom, code, <<>>)
             /\ pc' = "returned"
             /\ export_uuid' = NoneStr
             /\ UNCHANGED <<error, pollVars>>
        ELSE IF raise_for_status(code)
        THEN /\ last_http' = Http("start", dom, code, <<>>)
             /\ Raise("HTTPError")
             /\ UNCHANGED <<export_uuid, pollVars>>
        ELSE \E body \in StartBodies :
             LET u == PyOrStr(body.export_uuid, body.uuid) IN
             /\ last_http' = Http("start", dom, code, <<body.export_uuid, body.uuid>>)
             /\ IF ~TruthyStr(u)
                THEN /\ Raise("MissingJobIdError")
                     /\ UNCHANGED <<export_uuid, pollVars>>
                ELSE /\ export_uuid' = u
                     /\ pc' = "poll"
                     /\ PollCalled(DefaultMaxRetries)
                     /\ UNCHANGED error
    /\ UNCHANGED <<harness, disable_was, outputs, dom, results, written,
                   status, chunks, total_count, idx, all_rows,
                   chunk_requests, terminal_counts, warnings, flatVars, ndVars, sanVars>>

start_vm_export ==
    /\ harness = "main" /\ pc = "start" /\ dom = "vm"
    /\ StartExport(FALSE)

(* start_was_export without its test for 403.                             *)
start_was_export_no_403_case ==
    /\ harness = "main" /\ pc = "start" /\ dom = "was" /\ ~disable_was
    /\ StartExport(FALSE)

start_was_export ==
    /\ harness = "main" /\ pc = "start" /\ dom = "was" /\ ~disable_was
    /\ StartExport(TRUE)

start_assets_export_v2 ==
    /\ harness = "main" /\ pc = "start" /\ dom = "assets"
    /\ StartExport(FALSE)

(* main running the web-app-finding export whatever the flag says.        *)
SkipWas_ignores_flag ==
    /\ harness = "main" /\ pc = "start" /\ dom = "was" /\ disable_was
    /\ StartExport(TRUE)

(* main with --disable-was: was_rows stays [] and no WAS call is made.     *)
SkipWas ==
    /\ harness = "main" /\ pc = "start" /\ dom = "was" /\ disable_was
    /\ results' = Append(results, [dom |-> "was", rows |-> <<>>])
    /\ dom' = "assets"
    /\ UNCHANGED <<harness, pc, disable_was, outputs, written, error,
                   last_http, orchVars, pollVars, flatVars, ndVars, sanVars>>

(* The warnings an orchestrator logs between the poller's return and the   *)
(* chunk loop.                                                             *)
poll_warnings(st, cs) ==
    (IF st # "FINISHED" THEN {"status"} ELSE {})
    \cup (IF cs = <<>> THEN {"no_chunks"} ELSE {})

(* An orchestrator that gives up on a status other than FINISHED.         *)
AfterPoll_strict ==
    /\ harness = "main" /\ pc = "polled"
    /\ IF status # "FINISHED"
       THEN /\ Raise("RuntimeError")
            /\ UNCHANGED <<warnings, all_rows, idx>>
       ELSE /\ warnings' = warnings \cup poll_warnings(status, chunks)
            /\ all_rows' = <<>> /\ idx' = 1
            /\ pc' = "chunks"
            /\ UNCHANGED error
    /\ UNCHANGED <<harness, disable_was, outputs, dom, results, written,
                   last_http, export_uuid, status, chunks, total_count,
                   chunk_requests, terminal_counts, pollVars, flatVars, ndVars, sanVars>>

(* From the poller's return to the chunk loop.                             *)
AfterPoll ==
    /\ harness = "main" /\ pc = "polled"
    /\ warnings' = warnings \cup poll_warnings(status, chunks)
    /\ all_rows' = <<>> /\ idx' = 1
    /\ pc' = "chunks"
    /\ UNCHANGED <<harness, mainVars, export_uuid, status, chunks, total_count,
                   chunk_requests, terminal_counts, pollVars, flatVars, ndVars, sanVars>>

(* A chunk loop that puts the rows of each chunk before the rows so far.   *)
FetchChunk_prepends ==
    /\ harness = "main" /\ pc = "chunks"
    /\ idx <= Len(chunks)
    /\ chunk_requests' = Append(chunk_requests, chunks[idx])
    /\ \E code \in HttpCodes :
        /\ last_http' = Http("chunk", dom, code, <<>>)
        /\ IF raise_for_status(code)
           THEN /\ Raise("HTTPError")
                /\ UNCHANGED <<all_rows, idx>>
           ELSE \E body \in ChunkBodies(chunks[idx]) :
                /\ all_rows' = ndjson_rows(body) \o all_rows
                /\ idx' = idx + 1
                /\ UNCHANGED <<pc, error>>
    /\ UNCHANGED <<harness, disable_was, outputs, dom, results, written,
                   export_uuid, status, chunks, total_count, terminal_counts,
                   warnings, pollVars, flatVars, ndVars, sanVars>>

(* One pass of `for cid in chunks`: ndjson_get on the chunk's URL.         *)
FetchChunk ==
    /\ harness = "main" /\ pc = "chunks"
    /\ idx <= Len(chunks)
    /\ chunk_requests' = Append(chunk_requests, chunks[idx])
    /\ \E code \in HttpCodes :
        /\ last_http' = Http("chunk", dom, code, <<>>)
        /\ IF raise_for_status(code)
           THEN /\ Raise("HTTPError")
                /\ UNCHANGED <<all_rows, idx>>
           ELSE \E body \in ChunkBodies(chunks[idx]) :
                /\ all_rows' = all_rows \o ndjson_rows(body)
                /\ idx' = idx + 1
                /\ UNCHANGED <<pc, error>>
    /\ UNCHANGED <<harness, disable_was, outputs, dom, results, written,
                   export_uuid, status, chunks, total_count, terminal_counts,
                   warnings, pollVars, flatVars, ndVars, sanVars>>

(* Whether the orchestrator logs the count-mismatch warning.               *)
count_mismatch(expected, n) == expected # None /\ n # expected

(* After the chunk loop: the count check and `return all_rows`.            *)
FinishExport ==
    /\ harness = "main" /\ pc = "chunks"
    /\ idx > Len(chunks)
    /\ warnings' = IF count_mismatch(total_count, Len(all_rows))
                   THEN warnings \cup {"count_mismatch"} ELSE warnings
    /\ pc' = "returned"
    /\ UNCHANGED <<harness, mainVars, export_uuid, status, chunks, total_count,
                   idx, all_rows, chunk_requests, terminal_counts, pollVars,
                   flatVars, ndVars, sanVars>>

(* main going to the writers after the web-app-finding domain.            *)
MainAssign_skips_assets ==
    /\ harness = "main" /\ pc = "returned"
    /\ results' = Append(results, [dom |-> dom, rows |-> all_rows])
    /\ OrchFresh
    /\ IF dom = "vm" THEN dom' = "was" /\ pc' = "start"
       ELSE dom' = "none" /\ pc' = "write_parquet"
    /\ UNCHANGED <<harness, disable_was, outputs, written, error, last_http,
                   pollVars, flatVars, ndVars, sanVars>>

(* main assigns the orchestrator's result and goes on to the next domain.  *)
MainAssign ==
    /\ harness = "main" /\ pc = "returned"
    /\ results' = Append(results, [dom |-> dom, rows |-> all_rows])
    /\ OrchFresh
    /\ IF dom = "vm" THEN dom' = "was" /\ pc' = "start"
       ELSE IF dom = "was" THEN dom' = "assets" /\ pc' = "start"
       ELSE dom' = "none" /\ pc' = "write_parquet"
    /\ UNCHANGED <<harness, disable_was, outputs, written, error, last_http,
                   pollVars, flatVars, ndVars, sanVars>>

Called(fmt)         == [fmt |-> fmt, name |-> "<called>"]
Artifact(fmt, name) == [fmt |-> fmt, name |-> name]
(* The frame a writer hands to to_parquet, to_excel or con.register: the   *)
(* result of a sanitizer, or the frame of df_map itself ("df").            *)
Handed(fmt, name, by) == [fmt |-> fmt, name |-> name, by |-> by]

(* pd.DataFrame(rows) if rows else pd.DataFrame(): a frame, as the         *)
(* sequence of its rows.                                                   *)
DataFrame(rs) == IF rs # <<>> THEN rs ELSE <<>>

(* df_map: the frame of each dataset name, built from the rows assigned.   *)
df_map ==
    [name \in {DatasetName(results[i].dom) : i \in 1..Len(results)} |->
        LET i == CHOOSE j \in 1..Len(results) : DatasetName(results[j].dom) = name
        IN  DataFrame(results[i].rows)]

(* df.empty for the frame main builds from a row list.                     *)
df_empty(rs) == rs = <<>>

NonEmptyDatasets == {results[i].dom : i \in {j \in 1..Len(results) : ~df_empty(results[j].rows)}}
AllDatasets      == {results[i].dom : i \in 1..Len(results)}

write_parquet ==
    /\ harness = "main" /\ pc = "write_parquet"
    /\ IF "parquet" \in outputs
       THEN \E pyarrow_installed \in BOOLEAN :
            IF ~pyarrow_installed
            THEN /\ Raise("RuntimeError")
                 /\ written' = written \cup {Called("parquet")}
            ELSE /\ written' = written \cup {Called("parquet")}
                       \cup {Artifact("parquet", DatasetName(d)) : d \in NonEmptyDatasets}
                       \cup {Handed("parquet", DatasetName(d), "sanitize_for_parquet") :
                                d \in NonEmptyDatasets}
                 /\ pc' = "write_excel"
                 /\ UNCHANGED error
       ELSE /\ pc' = "write_excel"
            /\ UNCHANGED <<written, error>>
    /\ UNCHANGED <<harness, disable_was, outputs, dom, results, last_http,
                   orchVars, pollVars, flatVars, ndVars, sanVars>>

write_excel ==
    /\ harness = "main" /\ pc = "write_excel"
    /\ IF "excel" \in outputs
       THEN written' = written \cup {Called("excel")}
                \cup {Artifact("excel", DatasetName(d)) : d \in AllDatasets}
                \cup {Handed("excel", DatasetName(d),
                             IF d \in NonEmptyDatasets
                             THEN "sanitize_for_excel" ELSE "df") : d \in AllDatasets}
       ELSE UNCHANGED written
    /\ pc' = "write_duckdb"
    /\ UNCHANGED <<harness, disable_was, outputs, dom, results, error, last_http,
                   orchVars, pollVars, flatVars, ndVars, sanVars>>

write_duckdb ==
    /\ harness = "main" /\ pc = "write_duckdb"
    /\ IF "duckdb" \in outputs
       THEN \E duckdb_installed \in BOOLEAN :
            written' = written \cup {Called("duckdb")}
                \cup (IF duckdb_installed
                      THEN {Artifact("duckdb", DatasetName(d)) : d \in NonEmptyDatasets}
                           \cup {Handed("duckdb", DatasetName(d), "df") :
                                    d \in NonEmptyDatasets}
                      ELSE {})
       ELSE UNCHANGED written
    /\ pc' = "done"
    /\ UNCHANGED <<harness, disable_was, outputs, dom, results, error, last_http,
                   orchVars, pollVars, flatVars, ndVars, sanVars>>

Next ==
    \/ start_vm_export \/ start_was_export \/ start_assets_export_v2
    \/ SkipWas
    \/ PollIteration \/ PollTimeout
    \/ AfterPoll \/ FetchChunk \/ FinishExport
    \/ MainAssign
    \/ write_parquet \/ write_excel \/ write_duckdb

Spec == MainInit /\ [][Next]_vars


---------------------------------------------------------------------------
(* sanitize_for_excel and sanitize_for_parquet.  A frame is a sequence of  *)
(* columns and a column the sequence of its cells.  A cell holds None      *)
(* (Null), NaN, an integer, a string, a list or a dict.                    *)
MAX_URL_LENGTH  == 2079
MAX_CELL_LENGTH == 32767

MaxRows == 2        \* rows of a frame in SpecSanitize

(* A string of n characters that begins with `scheme`.                     *)
Text(scheme, n) == [t |-> "text", scheme |-> scheme, len |-> n]
NaN == Float("nan")

IsStr(v) == v.t \in {"str", "text"}
py_len(v) == IF v.t = "text" THEN v.len ELSE Len(v.s)
(* val_str.startswith(p); the literal strings of the model begin with no   *)
(* URL scheme.                                                             *)
startswith(v, p) == v.t = "text" /\ v.scheme = p
(* val_str[:n]                                                             *)
str_prefix(v, n) == IF py_len(v) <= n THEN v ELSE Text(v.scheme, n)

(* A list and a dict that hold one string of 40000 characters.             *)
LongList == Arr(<<Text("", 40000)>>)
LongDict == Obj(<<Entry("x", Text("", 40000))>>)

(* json.dumps(val) as a Python string.                                     *)
py_json_dumps(val) ==
    CASE val = LongList -> Text("[\"", 40000 + 4)
      [] val = LongDict -> Text("{\"x\": \"", 40000 + 9)
      [] OTHER -> Str(json_dumps(val))

(* str(val) for a cell that is neither a string nor a list.                *)
py_str(val) ==
    CASE val.t = "num" -> Str(IntStr(val.n))
      [] val = XObj -> Str("{'x': 1}")
      [] val = LongDict -> Text("{'x': '", 40000 + 9)

(* The outcome of `if pd.isna(val)`.  pd.isna of a list is the array of    *)
(* its elements' tests: its truth value is that of the one element of a    *)
(* one-element list and raises ValueError for more than one element (and,  *)
(* depending on the numpy version, is False or raises for none).           *)
isna_test(val) ==
    CASE val = NaN -> "true"
      [] val.t = "arr" /\ Len(val.items) = 1 ->
            IF val.items[1] \in {Null, NaN} THEN "true" ELSE "false"
      [] val.t = "arr" /\ Len(val.items) > 1 -> "ValueError"
      [] OTHER -> "false"

truncate_value(val) ==
    IF val = Null THEN val
    ELSE IF isna_test(val) = "true" THEN val
    ELSE LET val_str == IF IsList(val)
                        THEN (IF val.items # <<>> THEN py_json_dumps(val) ELSE Str(""))
                        ELSE IF IsStr(val) THEN val ELSE py_str(val)
         IN  IF py_len(val_str) = 0 THEN val
             ELSE IF IsStr(val)
                     /\ (startswith(val_str, "http://") \/ startswith(val_str, "https://"))
                     /\ py_len(val_str) > MAX_URL_LENGTH
             THEN str_prefix(val_str, MAX_URL_LENGTH)
             ELSE IF py_len(val_str) > MAX_CELL_LENGTH
             THEN str_prefix(val_str, MAX_CELL_LENGTH)
             ELSE IF IsList(val) THEN py_json_dumps(val)
             ELSE val

(* convert_value serialising strings as well.                             *)
convert_value_dumps_strings(val) ==
    IF val = Null THEN val
    ELSE IF isna_test(val) = "true" THEN val
    ELSE IF IsList(val) \/ IsDict(val) \/ val.t = "str" THEN py_json_dumps(val)
    ELSE val

convert_value(val) ==
    IF val = Null THEN val
    ELSE IF isna_test(val) = "true" THEN val
    ELSE IF IsList(val) \/ IsDict(val) THEN py_json_dumps(val)
    ELSE val

(* df[col].dtype == 'object': a column of integers and NaN is numeric.     *)
dtype(col) ==
    IF \A i \in 1..Len(col) : col[i].t = "num" \/ col[i] = NaN
    THEN "float64" ELSE "object"

(* df.copy() sharing its columns with df.                                 *)
df_copy_is_alias(d) == [of |-> d, shared |-> TRUE]

(* df.copy(): a new frame with the cells of df.                            *)
df_copy(d) == [of |-> d, shared |-> FALSE]

(* The loop `df_sanitized[col] = df_sanitized[col].apply(f)` over the      *)
(* object columns of a frame.                                              *)
apply_excel(d) ==
    [c \in 1..Len(d) |->
        IF dtype(d[c]) = "object"
        THEN [i \in 1..Len(d[c]) |-> truncate_value(d[c][i])] ELSE d[c]]

apply_parquet(d) ==
    [c \in 1..Len(d) |->
        IF dtype(d[c]) = "object"
        THEN [i \in 1..Len(d[c]) |-> convert_value(d[c][i])] ELSE d[c]]

(* The frames `df` and `df_sanitized` name once the sanitizer returned.    *)
sanitize_for_excel(d) ==
    LET cp == df_copy(d) out == apply_excel(cp.of) IN
    [df |-> IF cp.shared THEN out ELSE d, df_sanitized |-> out]

sanitize_for_parquet(d) ==
    LET cp == df_copy(d) out == apply_parquet(cp.of) IN
    [df |-> IF cp.shared THEN out ELSE d, df_sanitized |-> out]

(* The cells of the frames main builds from flattened records.             *)
CellChoices ==
    { Null, NaN, Num(1), Str(""), Text("", 10),
      Text("", MAX_CELL_LENGTH), Text("", MAX_CELL_LENGTH + 1),
      Text("https://", MAX_URL_LENGTH), Text("https://", MAX_URL_LENGTH + 1),
      Text("https://", 40000), Text("http://", 2200),
      Arr(<<>>), Arr(<<Num(1), Num(2), Num(3)>>), Arr(<<Null>>), LongList,
      XObj, LongDict }

(* pd.DataFrame(rows) turns None into NaN in a column of numbers, so no    *)
(* column holds None and integers only.                                    *)
Constructible(col) ==
    ~( /\ \A i \in 1..Len(col) : col[i] \in {Null, NaN} \/ col[i].t = "num"
       /\ \E i \in 1..Len(col) : col[i] = Null
       /\ \E i \in 1..Len(col) : col[i].t = "num" )

ColumnsOf(r) == {col \in [1..r -> CellChoices] : Constructible(col)}
NumericColumns(r) == {[i \in 1..r |-> Num(1)], [i \in 1..r |-> IF i = 1 THEN NaN ELSE Num(1)]}

SanitizeInit ==
    /\ harness = "sanitize" /\ pc = "call"
    /\ sanitizer \in {"sanitize_for_excel", "sanitize_for_parquet"}
    /\ \E r \in 1..MaxRows : \E col \in ColumnsOf(r) :
          \/ df = <<col>>
          \/ \E k \in NumericColumns(r) : df = <<col, k>>
    /\ df_sanitized = NotRun /\ df_again = NotRun
    /\ MainIdle /\ OrchIdle /\ PollIdle /\ FlatIdle /\ NdIdle

(* The sanitizer called on df, and its return.                             *)
Sanitize ==
    /\ harness = "sanitize" /\ pc = "call"
    /\ LET r == IF sanitizer = "sanitize_for_excel"
                THEN sanitize_for_excel(df) ELSE sanitize_for_parquet(df)
       IN  df' = r.df /\ df_sanitized' = r.df_sanitized
    /\ pc' = "done"
    /\ UNCHANGED <<harness, sanitizer, df_again, mainVars, orchVars, pollVars,
                   flatVars, ndVars>>

(* The same sanitizer called on the frame it returned.                     *)
SanitizeAgain ==
    /\ harness = "sanitize" /\ pc = "done"
    /\ LET r == IF sanitizer = "sanitize_for_excel"
                THEN sanitize_for_excel(df_sanitized)
                ELSE sanitize_for_parquet(df_sanitized)
       IN  df_sanitized' = r.df /\ df_again' = r.df_sanitized
    /\ pc' = "again"
    /\ UNCHANGED <<harness, sanitizer, df, mainVars, orchVars, pollVars,
                   flatVars, ndVars>>

NextSanitize == Sanitize \/ SanitizeAgain

SpecSanitize == SanitizeInit /\ [][NextSanitize]_vars

---------------------------------------------------------------------------
(* Properties of poll_export_status (SpecPoll).                            *)

(* An HTTP status code of the client-error or server-error class.         *)
HttpFailure(code) == code \div 100 \in {4, 5}

(* A status text that reads finished, error or cancelled in any case.      *)
SaysTerminal(s) ==
    s \in {"FINISHED", "finished", "Finished", "ERROR", "error", "Error",
           "CANCELLED", "cancelled", "Cancelled"}

(* The latest status request was answered successfully, so `data` is the   *)
(* body of that answer.                                                    *)
StatusAnswered == last_http.kind = "status" /\ ~HttpFailure(last_http.code)

(* C1: the poller returns at the first answer whose status, compared       *)
(* case-insensitively, is finished, error or cancelled: as soon as the     *)
(* latest answer is such a one the call has returned, every earlier answer *)
(* cost one retry, no delay followed the terminal answer, and the chunk    *)
(* list and count hint returned are those of that very answer.             *)
C1_ReturnsAtFirstTerminal ==
    (harness = "poll" /\ StatusAnswered /\ SaysTerminal(data.status)) =>
        /\ pc = "polled"
        /\ status \in TerminalStatuses
        /\ status_requests = retries + 1
        /\ slept = SleepSeconds * (status_requests - 1)
        /\ chunks = chunk_list_of(data.chunks_available)
        /\ total_count = total_count_of(data)
        /\ terminal_counts = <<data.total, data.total_count, data.count>>

C1_Witness ==
    /\ harness = "poll" /\ pc = "polled"
    /\ data.status = "cancelled"
    /\ retries = 1 /\ max_retries = 3
    /\ chunks = <<1, 2>> /\ total_count = 2

(* C2: with every answer non-terminal the poller issues exactly            *)
(* max_retries status requests and then raises the timeout error: request  *)
(* number max_retries + 1 is never issued, the timeout is raised only      *)
(* after max_retries non-terminal answers, and after that many the call    *)
(* has not returned a result.                                              *)
C2_TimeoutAfterExactlyMaxAttempts ==
    harness = "poll" =>
        /\ status_requests <= max_retries
        /\ (error = "PollTimeoutError" =>
                /\ pc = "aborted"
                /\ retries = max_retries
                /\ status_requests = max_retries
                /\ status = NotRun)
        /\ (retries = max_retries => pc # "polled")
        /\ (retries = max_retries /\ pc = "aborted" => error = "PollTimeoutError")

C2_Witness ==
    /\ harness = "poll" /\ pc = "aborted" /\ error = "PollTimeoutError"
    /\ max_retries = 3 /\ status_requests = 3
    /\ data.status = "Processing"

---------------------------------------------------------------------------
(* Properties of the orchestrators and of main (Spec).                     *)

(* The rows of one chunk: those of any body the server may answer with.    *)
RowsOfChunk(cid) == {ndjson_rows(body) : body \in ChunkBodies(cid)}

(* The concatenations, in list order, of the rows of the chunks of `cs`.   *)
RECURSIVE Concatenations(_)
Concatenations(cs) ==
    IF cs = <<>> THEN {<<>>}
    ELSE {r \o t : r \in RowsOfChunk(Head(cs)), t \in Concatenations(Tail(cs))}

(* The poller of the running orchestrator has returned.                    *)
PollReturned == status # NotRun

(* C3: a terminal status of error or cancelled, or no chunk at all, does   *)
(* not abort the run: the orchestrator logs its warnings, requests the     *)
(* chunk ids the poller returned, in order, and returns; with no chunk it  *)
(* returns the empty sequence.  After the poller returned only a failed    *)
(* chunk download ends the orchestrator.                                   *)
C3_NonFinishedStatusNeverAborts ==
    (harness = "main" /\ PollReturned
        /\ (status \in {"ERROR", "CANCELLED"} \/ chunks = <<>>)) =>
        /\ pc \in {"polled", "chunks", "returned", "aborted"}
        /\ (pc = "aborted" =>
                /\ error = "HTTPError"
                /\ last_http.kind = "chunk" /\ HttpFailure(last_http.code))
        /\ Len(chunk_requests) <= Len(chunks)
        /\ chunk_requests = SubSeq(chunks, 1, Len(chunk_requests))
        /\ (pc \in {"chunks", "returned"} =>
                /\ (status # "FINISHED" => "status" \in warnings)
                /\ (chunks = <<>> => "no_chunks" \in warnings))
        /\ (pc = "returned" =>
                /\ error = NoError
                /\ chunk_requests = chunks
                /\ all_rows \in Concatenations(chunks)
                /\ (chunks = <<>> => all_rows = <<>>))

C3_Witness ==
    /\ harness = "main" /\ pc = "returned" /\ dom = "vm"
    /\ status = "ERROR" /\ chunks = <<2, 1>>
    /\ chunk_requests = <<2, 1>> /\ Len(all_rows) = 4

(* An exchange whose HTTP status is a failure the run does not tolerate.   *)
FatalHttp(h) ==
    /\ h.kind # "none"
    /\ HttpFailure(h.code)
    /\ ~(h.kind = "start" /\ h.dom = "was" /\ h.code = 403)

(* C4: a failing HTTP status on a job-start (but the web-app-finding 403), *)
(* a status poll or a chunk download aborts the run at once; an aborted    *)
(* run takes no further step (no request, no retry, no later chunk or      *)
(* domain) and no writer has been or will be invoked.                      *)
C4_HttpFailureAbortsRun ==
    [][ /\ (harness' = "main" /\ FatalHttp(last_http')) =>
              (pc' = "aborted" /\ error' = "HTTPError" /\ written' = {})
        /\ (harness = "main" /\ pc = "aborted") => UNCHANGED vars ]_vars

C4_Witness ==
    /\ harness = "main" /\ pc = "aborted" /\ error = "HTTPError"
    /\ dom = "was" /\ Len(results) = 1 /\ results[1].rows # <<>>
    /\ last_http.kind = "chunk" /\ last_http.code = 500
    /\ Len(chunks) = 2 /\ idx = 2 /\ all_rows # <<>>
    /\ written = {}

(* A job-start answer that carries no usable job identifier.               *)
NoJobId(ids) == \A i \in 1..Len(ids) : ids[i] \in {NoneStr, ""}

(* C5: a successful job-start answer without a job identifier makes the    *)
(* orchestrator raise the missing-job-id error before any status or chunk  *)
(* request (the job-start is still the latest exchange), and the poller    *)
(* and the chunk loop only ever run with an identifier.                    *)
C5_MissingJobIdAborts ==
    harness = "main" =>
        /\ (last_http.kind = "start" /\ ~HttpFailure(last_http.code)
                /\ NoJobId(last_http.ids)) =>
                (pc = "aborted" /\ error = "MissingJobIdError" /\ written = {})
        /\ (error = "MissingJobIdError" =>
                last_http.kind = "start" /\ chunk_requests = <<>> /\ ~PollReturned)
        /\ (pc \in {"poll", "polled", "chunks"} =>
                export_uuid \notin {NotRun, NoneStr, ""})

C5_Witness ==
    /\ harness = "main" /\ pc = "aborted" /\ error = "MissingJobIdError"
    /\ dom = "assets" /\ last_http = Http("start", "assets", 200, <<"", NoneStr>>)

(* C6: a 403 answer to the web-app-finding job-start raises nothing: the   *)
(* orchestrator returns the empty result with no status or chunk request   *)
(* (the job-start stays the latest exchange) and the run goes on to the    *)
(* asset domain; a 403 at the job-start of the two other domains aborts.   *)
C6_Was403ReturnsEmpty ==
    (harness = "main" /\ last_http.kind = "start" /\ last_http.code = 403) =>
        IF last_http.dom = "was"
        THEN /\ error = NoError
             /\ \/ pc = "returned" /\ dom = "was" /\ all_rows = <<>>
                     /\ chunk_requests = <<>> /\ ~PollReturned
                \/ pc = "start" /\ dom = "assets" /\ Len(results) = 2
                     /\ results[2] = [dom |-> "was", rows |-> <<>>]
        ELSE pc = "aborted" /\ error = "HTTPError"

C6_Witness ==
    /\ harness = "main" /\ pc = "start" /\ dom = "assets"
    /\ last_http = Http("start", "was", 403, <<>>)
    /\ results[1].rows # <<>> /\ results[2].rows = <<>>

(* The expected row count a status answer supplies: the first of "total",  *)
(* "total_count", "count" that is present.                                 *)
SuppliedCount(t) ==
    IF t[1] # None THEN t[1] ELSE IF t[2] # None THEN t[2] ELSE t[3]

(* C7: whenever the terminal status answer supplies an expected row count  *)
(* (0 included) and the orchestrator assembled a different number of rows, *)
(* the orchestrator has logged the count-mismatch warning when it returns, *)
(* without raising.                                                        *)
C7_MismatchAlwaysWarned ==
    (harness = "main" /\ pc = "returned" /\ PollReturned
        /\ SuppliedCount(terminal_counts) # None
        /\ Len(all_rows) # SuppliedCount(terminal_counts)) =>
        (error = NoError /\ "count_mismatch" \in warnings)

Rank(d) == CASE d = "vm" -> 1 [] d = "was" -> 2 [] d = "assets" -> 3 [] OTHER -> 4

(* The domains whose results main holds are vm, was, assets in that order, *)
(* and they are exactly the domains before the running one.                *)
DomainsInOrder ==
    /\ Len(results) <= 3
    /\ \A i \in 1..Len(results) : Rank(results[i].dom) = i
    /\ Len(results) = Rank(dom) - 1

(* C9: the run is strictly sequential.  The orchestrators run in the order *)
(* vm, was, assets and each one's result is assigned before the next       *)
(* domain's job-start; every HTTP exchange belongs to the running domain;  *)
(* a step issues at most one chunk request and consumes its answer before  *)
(* the next one; the writers run only once all three results are there.    *)
C9_StrictlySequential ==
    [][ harness = "main" =>
          /\ DomainsInOrder'
          /\ (last_http' # last_http =>
                  /\ last_http'.dom = dom /\ dom' = dom
                  /\ pc \in {"start", "poll", "chunks"})
          /\ (chunk_requests' # chunk_requests /\ chunk_requests' # <<>> =>
                  /\ pc = "chunks" /\ last_http'.kind = "chunk"
                  /\ chunk_requests' = Append(chunk_requests, chunks[idx])
                  /\ (idx' = idx + 1 \/ pc' = "aborted"))
          /\ (pc' \in {"write_parquet", "write_excel", "write_duckdb", "done"}
                  \/ written' # {} =>
                  Len(results') = 3 /\ dom' = "none") ]_vars

C9_Witness ==
    /\ harness = "main" /\ pc = "done" /\ ~disable_was
    /\ \A i \in 1..3 : results[i].rows # <<>>
    /\ Called("excel") \in written

---------------------------------------------------------------------------
(* Properties of ndjson_get (SpecNdjson).                                  *)

MalformedAt == {i \in 1..Len(nd_lines) : nd_lines[i].kind = "malformed"}

RemoveAt(sq, k) == SubSeq(sq, 1, k - 1) \o SubSeq(sq, k + 1, Len(sq))

(* The number of records a line stands for: one per element of an array,   *)
(* one for an object or a scalar, none for a blank or undecodable line.    *)
ExpectedRecords(line) ==
    IF line.kind # "json" THEN 0
    ELSE IF line.val.t = "arr" THEN Len(line.val.items)
    ELSE 1

RECURSIVE SumExpected(_)
SumExpected(lines) ==
    IF lines = <<>> THEN 0
    ELSE ExpectedRecords(Head(lines)) + SumExpected(Tail(lines))

(* C8 as stated: with exactly one malformed line among N lines, the others *)
(* being well-formed JSON, ndjson_get returns exactly N-1 records and logs *)
(* exactly one warning.                                                    *)
C8_ExactlyNMinusOneRecords ==
    (harness = "ndjson" /\ pc = "done"
        /\ Cardinality(MalformedAt) = 1
        /\ \A i \in 1..Len(nd_lines) : nd_lines[i].kind \in {"malformed", "json"}) =>
        (Len(rows) = Len(nd_lines) - 1 /\ Len(nd_warnings) = 1)

(* C8 amended: with exactly one malformed line K, ndjson_get returns and   *)
(* logs exactly one warning, for line K; the records returned are those of *)
(* the chunk without line K, in order: one per object or scalar line, one  *)
(* per element of an array line, none for a blank line; hence exactly N-1  *)
(* records when every other line is an object or a scalar.                 *)
C8_OtherLinesKept ==
    (harness = "ndjson" /\ pc = "done" /\ Cardinality(MalformedAt) = 1) =>
        LET K == CHOOSE i \in MalformedAt : TRUE IN
        /\ nd_warnings = <<K>>
        /\ rows = ndjson_rows(RemoveAt(nd_lines, K))
        /\ Len(rows) = SumExpected(RemoveAt(nd_lines, K))
        /\ ((\A i \in 1..Len(nd_lines) :
                i # K => nd_lines[i].kind = "json" /\ nd_lines[i].val.t # "arr")
             => Len(rows) = Len(nd_lines) - 1)

C8_Witness ==
    /\ harness = "ndjson" /\ pc = "done"
    /\ Len(nd_lines) = 3 /\ nd_lines[2] = BadLine
    /\ nd_lines[1] = JsonLine(Arr(<<Num(1), XObj>>))
    /\ nd_lines[3] = JsonLine(Num(1))
    /\ Len(rows) = 3 /\ nd_warnings = <<2>>

---------------------------------------------------------------------------
(* Properties of flatten_dict (SpecFlatten).                               *)

(* C10: for a nested mapping with no mapping inside a sequence, the        *)
(* flattened mapping has as many keys as the input has leaf values.        *)
C10_KeyCountEqualsLeafCount ==
    (harness = "flatten" /\ pc = "done" /\ ~HasMappingSeq(fl_in)) =>
        Len(fl_out) = LeafCount(fl_in)

(* The value the stated rules keep for a leaf: the JSON string of the whole *)
(* sequence when its first element is a mapping, the value itself else.    *)
StatedValue(v) ==
    IF IsList(v) /\ Len(v.items) > 0 /\ IsDict(v.items[1])
    THEN Str(json_dumps(v)) ELSE v

(* The entries the stated rules give: a top-level key stands as it is and, *)
(* below a mapping, the key is parent_key + "_" + child_key.               *)
RECURSIVE StatedEntries(_, _, _)
StatedEntries(d, parent_key, nested) ==
    IF d = <<>> THEN <<>>
    ELSE LET k   == Head(d).k
             v   == Head(d).v
             key == IF nested THEN parent_key \o "_" \o k ELSE k
         IN  (IF IsDict(v) THEN StatedEntries(v.kv, key, TRUE)
              ELSE <<Entry(key, StatedValue(v))>>)
             \o StatedEntries(Tail(d), parent_key, nested)

EntrySet(sq) == {sq[i] : i \in 1..Len(sq)}

(* C11: flatten_dict follows the stated per-value rules at every depth:    *)
(* every key of the result is the key the rules give to some leaf, with    *)
(* the value the rules give it, and every leaf's key is in the result.     *)
C11_FollowsStatedRules ==
    (harness = "flatten" /\ pc = "done") =>
        LET stated == StatedEntries(fl_in, "", FALSE) IN
        /\ EntrySet(fl_out) \subseteq EntrySet(stated)
        /\ KeysOf(fl_out) = KeysOf(stated)

---------------------------------------------------------------------------
(* Properties of the chunk id coercion (SpecPoll).                         *)

(* The chunks_available entries that can be coerced to an integer, and the *)
(* integer each one stands for.                                            *)
Coercible(c) == c \in {Num(1), Str("2"), Float("1.5")}
IntegerOf(c) ==
    CASE c = Num(1) -> 1 [] c = Str("2") -> 2 [] c = Float("1.5") -> 1

Uncoercible(c) == ~Coercible(c)

(* C12: on a terminal status answer the poller returns, and the chunk id   *)
(* list it returns is the subsequence, in server order, of the entries of  *)
(* chunks_available that can be coerced to an integer, each as that        *)
(* integer; every other entry is logged as invalid and dropped, and none   *)
(* makes the call fail.                                                    *)
C12_ChunkIdsCoerced ==
    (harness = "poll" /\ StatusAnswered /\ SaysTerminal(data.status)) =>
        LET kept == SelectSeq(data.chunks_available, Coercible) IN
        /\ pc = "polled" /\ error = NoError
        /\ chunks = [i \in 1..Len(kept) |-> IntegerOf(kept[i])]
        /\ invalid_chunks = SelectSeq(data.chunks_available, Uncoercible)

---------------------------------------------------------------------------
(* Properties of the writers (Spec).                                       *)

DatasetNames == {DatasetName(d) : d \in {"vm", "was", "assets"}}

(* C13: once the run has completed, every requested output format holds a  *)
(* named artifact entry (file, sheet or table) for each of the three       *)
(* datasets, a dataset with zero rows included.                            *)
C13_EveryDatasetInEveryFormat ==
    (harness = "main" /\ pc = "done") =>
        \A fmt \in outputs : \A name \in DatasetNames :
            Artifact(fmt, name) \in written

(* The frames handed to the underlying writers so far.                     *)
HandedOver == {w \in written : "by" \in DOMAIN w}

Sanitizers == {"sanitize_for_parquet", "sanitize_for_excel"}

(* C14: whatever a writer of a requested format hands to its underlying    *)
(* writer is the result of a sanitizer pass over the assembled dataset,    *)
(* never the assembled dataset itself.                                     *)
C14_WritersGetSanitizedCopies ==
    harness = "main" => \A w \in HandedOver : w.by \in Sanitizers

---------------------------------------------------------------------------
(* Properties of the sanitizers (SpecSanitize).                            *)

(* C15: neither sanitizer changes the frame it is given: every cell of df  *)
(* is after the call what it was before, whatever the call returns.        *)
C15_SanitizersLeaveInputUnchanged ==
    [][harness = "sanitize" => df' = df]_vars

C15_Witness ==
    /\ harness = "sanitize" /\ pc = "done" /\ sanitizer = "sanitize_for_parquet"
    /\ Len(df) = 2
    /\ df[1] = <<Arr(<<Num(1), Num(2), Num(3)>>), XObj>>
    /\ df_sanitized[1] = <<Str("[1, 2, 3]"), Str("{\"x\": 1}")>>
    /\ df_sanitized[2] = df[2]

(* A string that starts with http:// or https://.                          *)
IsUrl(v) == v.t = "text" /\ v.scheme \in {"http://", "https://"}

(* The first n characters of a string longer than n.                       *)
FirstChars(v, n) == Text(v.scheme, n)

(* A value under both limits: a string of at most 2079 characters, or a    *)
(* value that is no string and holds none longer than that.                *)
UnderBothLimits(v) ==
    IF IsStr(v) THEN py_len(v) <= MAX_URL_LENGTH
    ELSE v \notin {LongList, LongDict}

(* The cells of the non-numeric columns: <<column, row>>.                  *)
ObjectCells ==
    {cr \in (1..Len(df)) \X (1..MaxRows + 1) :
        cr[2] <= Len(df[cr[1]]) /\ dtype(df[cr[1]]) = "object"}

(* C16: in the spreadsheet pass, in a non-numeric column, a URL string     *)
(* longer than 2079 characters becomes its first 2079 characters, any      *)
(* other string longer than 32767 characters its first 32767, and a null   *)
(* or missing value and any value under both limits is returned unchanged. *)
C16_ExcelTruncation ==
    (harness = "sanitize" /\ pc = "done" /\ sanitizer = "sanitize_for_excel") =>
        \A cr \in ObjectCells :
            LET v == df[cr[1]][cr[2]]
                w == df_sanitized[cr[1]][cr[2]]
            IN  /\ (IsUrl(v) /\ py_len(v) > MAX_URL_LENGTH) =>
                        w = FirstChars(v, MAX_URL_LENGTH)
                /\ (IsStr(v) /\ ~IsUrl(v) /\ py_len(v) > MAX_CELL_LENGTH) =>
                        w = FirstChars(v, MAX_CELL_LENGTH)
                /\ (v \in {Null, NaN} \/ UnderBothLimits(v)) => w = v

(* C17: in the columnar-storage pass, in a non-numeric column, a list or   *)
(* mapping becomes its JSON string and a scalar or null is returned        *)
(* unchanged, so that no cell of the result holds a list or a mapping.     *)
C17_ParquetSerializesContainers ==
    (harness = "sanitize" /\ pc = "done" /\ sanitizer = "sanitize_for_parquet") =>
        \A cr \in ObjectCells :
            LET v == df[cr[1]][cr[2]]
                w == df_sanitized[cr[1]][cr[2]]
            IN  /\ (IsList(v) \/ IsDict(v)) => (IsStr(w) /\ w = py_json_dumps(v))
                /\ ~(IsList(v) \/ IsDict(v)) => w = v
                /\ ~(IsList(w) \/ IsDict(w))

---------------------------------------------------------------------------
(* Properties of the chunk loop of an orchestrator (Spec).                 *)

(* C18: given the poller's chunk id list, an orchestrator issues exactly   *)
(* one chunk request per element, in list order, and the rows it returns   *)
(* are the concatenation, in that order, of the rows read from each chunk, *)
(* the rows of a chunk keeping their line order.                           *)
C18_ChunksFetchedInOrder ==
    (harness = "main" /\ pc \in {"chunks", "returned"} /\ status # NotRun) =>
        /\ idx \in 1..Len(chunks) + 1
        /\ chunk_requests = SubSeq(chunks, 1, idx - 1)
        /\ all_rows \in Concatenations(SubSeq(chunks, 1, idx - 1))
        /\ (pc = "returned" => chunk_requests = chunks)

C18_Witness ==
    /\ harness = "main" /\ pc = "returned"
    /\ chunks = <<2, 1>> /\ chunk_requests = <<2, 1>>
    /\ Len(all_rows) = 4
    /\ all_rows[1] # all_rows[3]

---------------------------------------------------------------------------
(* The records of decoded lines (SpecNdjson).                              *)

(* The records stated for a decoded value.                                 *)
StatedRecords(v) ==
    IF v.t = "obj" THEN <<flatten_dict(v.kv, "")>>
    ELSE IF v.t = "arr" THEN
        [i \in 1..Len(v.items) |->
            IF v.items[i].t = "obj" THEN flatten_dict(v.items[i].kv, "")
            ELSE <<Entry("value", v.items[i])>>]
    ELSE << <<Entry("value", v)>> >>

(* C19: every successfully decoded line appends one flattened record for   *)
(* an object; for an array one record per element in element order,       *)
(* flattened for an object element and {value: element} otherwise; and the *)
(* single record {value: v} for a scalar v.                                *)
C19_RecordsPerDecodedLine ==
    [][ (harness = "ndjson" /\ line_num' = line_num + 1
            /\ nd_lines[line_num].kind = "json") =>
            rows' = rows \o StatedRecords(nd_lines[line_num].val) ]_vars

C19_Witness ==
    /\ harness = "ndjson" /\ pc = "done"
    /\ nd_lines = <<JsonLine(Arr(<<Num(1), XObj>>)), JsonLine(Num(1)),
                    JsonLine(Obj(<<Entry("a", Obj(<<Entry("b", Num(2))>>))>>))>>
    /\ rows = << <<Entry("value", Num(1))>>, <<Entry("x", Num(1))>>,
                 <<Entry("value", Num(1))>>, <<Entry("a_b", Num(2))>> >>

---------------------------------------------------------------------------
(* The delays of poll_export_status (SpecPoll).                            *)

(* The call has ended: it returned or raised.                              *)
PollEnded == pc \in {"polled", "aborted"}

(* C20: every status request after the first is preceded by exactly one    *)
(* delay of 5 time-units, and a delay is taken only after a non-terminal   *)
(* response and only before a next attempt: a call that made n >= 1        *)
(* requests has slept 5 * (n - 1) when it ends, and a call that times out  *)
(* has slept 5 * (max_retries - 1).                                        *)
C20_DelayOnlyBeforeNextAttempt ==
    (harness = "poll" /\ status_requests >= 1) =>
        /\ (~PollEnded /\ retries < max_retries =>
                slept = SleepSeconds * status_requests)
        /\ (PollEnded => slept = SleepSeconds * (status_requests - 1))
        /\ (error = "PollTimeoutError" =>
                slept = SleepSeconds * (max_retries - 1))

---------------------------------------------------------------------------
(* The dataset map main assembles (Spec).                                  *)

WriterStages == {"write_parquet", "write_excel", "write_duckdb", "done"}

(* C21: with the web-app-finding domain disabled no request goes to a      *)
(* web-app-finding endpoint and its entry has zero rows, the other two     *)
(* domains being exported as usual; every entry added to the results is    *)
(* the running domain's, holding the rows its orchestrator returned (none  *)
(* for the disabled domain); and the dataset map handed to the writers has *)
(* exactly the three dataset names, each with the row count returned.      *)
C21_ThreeEntriesWithReturnedCounts ==
    [][ harness = "main" =>
          /\ (disable_was /\ last_http' # last_http => last_http'.dom # "was")
          /\ (results' # results =>
                  /\ Len(results') = Len(results) + 1
                  /\ SubSeq(results', 1, Len(results)) = results
                  /\ results'[Len(results')].dom = dom
                  /\ IF pc = "returned"
                     THEN results'[Len(results')].rows = all_rows
                     ELSE /\ disable_was /\ dom = "was"
                          /\ results'[Len(results')].rows = <<>>)
          /\ (pc' \in WriterStages =>
                  /\ DOMAIN df_map' = DatasetNames
                  /\ Len(results') = 3
                  /\ \A i \in 1..3 :
                        Len(df_map'[DatasetName(results'[i].dom)])
                            = Len(results'[i].rows)
                  /\ (disable_was =>
                        /\ df_map'["WAS_Vulnerabilities"] = <<>>
                        /\ results'[1].dom = "vm" /\ results'[3].dom = "assets")) ]_vars

C21_Witness ==
    /\ harness = "main" /\ pc = "done" /\ disable_was
    /\ Len(df_map["VM_Vulnerabilities"]) = 4
    /\ Len(df_map["WAS_Vulnerabilities"]) = 0
    /\ Len(df_map["Tenable_VM_Assets"]) = 2

---------------------------------------------------------------------------
(* When poll_export_status returns (SpecPoll).                             *)

(* C22: poll_export_status returns if and only if it received an answer    *)
(* with a terminal status: a returned status is FINISHED, ERROR or         *)
(* CANCELLED and belongs to the latest answer; a terminal answer makes the *)
(* call return; and every other answer (pending, an unrecognised status,   *)
(* no status) costs exactly one attempt of the budget, the call going on   *)
(* or timing out.                                                          *)
C22_ReturnsIffTerminal ==
    harness = "poll" =>
        /\ (pc = "polled" =>
                /\ StatusAnswered /\ SaysTerminal(data.status)
                /\ status \in TerminalStatuses)
        /\ (StatusAnswered /\ SaysTerminal(data.status) => pc = "polled")
        /\ (StatusAnswered /\ ~SaysTerminal(data.status) =>
                /\ retries = status_requests
                /\ error \in {NoError, "PollTimeoutError"}
                /\ status = NotRun)

---------------------------------------------------------------------------
(* Termination of the orchestrators (Spec).                                *)

(* The longest chunk id list a terminal answer carries.                    *)
LongestChunkList ==
    CHOOSE n \in 0..MaxChunks + 1 :
        /\ \E c \in MainChunkLists : Len(c) = n
        /\ \A c \in MainChunkLists : Len(c) <= n

(* The most steps one orchestrator takes: the job-start, max_retries       *)
(* status requests, the step after the poll, one fetch per chunk id, the   *)
(* count check and the assignment in main.                                 *)
OrchestratorBudget == 1 + DefaultMaxRetries + 1 + LongestChunkList + 1 + 1

(* The steps left to the three writers.                                    *)
WriterSteps ==
    CASE pc = "write_parquet" -> 3
      [] pc = "write_excel"   -> 2
      [] pc = "write_duckdb"  -> 1
      [] OTHER                -> 0

(* An upper bound on the steps the run can still take.                     *)
StepsLeft ==
    IF pc \in WriterStages \cup {"aborted"} THEN WriterSteps
    ELSE LET later == (3 - Rank(dom)) * OrchestratorBudget + 3 IN
         CASE pc = "start"    -> later + OrchestratorBudget
           [] pc = "poll"     -> later + (DefaultMaxRetries - retries)
                                       + LongestChunkList + 3
           [] pc = "polled"   -> later + LongestChunkList + 3
           [] pc = "chunks"   -> later + (Len(chunks) - idx + 1) + 2
           [] pc = "returned" -> later + 1

(* C23: every HTTP request being answered, each orchestrator ends with its *)
(* rows or with an error after at most one job-start request, at most      *)
(* max_retries (360) status requests and at most one chunk request per     *)
(* chunk id of the terminal answer, and it cannot poll or fetch forever:   *)
(* every step lowers a natural-number bound on the steps left, and a run   *)
(* that has not ended always has a next step.                              *)
C23_OrchestratorsTerminate ==
    /\ [](harness = "main" =>
            /\ Len(chunk_requests) <= Len(chunks)
            /\ chunk_requests = SubSeq(chunks, 1, Len(chunk_requests))
            /\ StepsLeft \in Nat
            /\ (pc \notin {"done", "aborted"} => ENABLED Next))
    /\ [][ harness = "main" =>
            /\ StepsLeft' < StepsLeft
            /\ (last_http' # last_http /\ last_http'.kind = "start" =>
                    /\ pc = "start" /\ last_http'.dom = dom
                    /\ pc' \in {"poll", "returned", "aborted"})
            /\ (pc' = "start" => Rank(dom') > Rank(dom))
            /\ (pc = "poll" /\ pc' \in {"poll", "aborted"} =>
                    /\ status_requests' <= DefaultMaxRetries
                    /\ status_requests' <= status_requests + 1) ]_vars

C23_Witness ==
    /\ harness = "main" /\ dom = "assets" /\ pc = "aborted"
    /\ error = "PollTimeoutError"
    /\ status_requests = DefaultMaxRetries
    /\ Len(results) = 2 /\ results[1].rows # <<>> /\ results[2].rows # <<>>

---------------------------------------------------------------------------
(* Idempotence of the sanitizers (SpecSanitize).                           *)

(* C24: both sanitizers are idempotent: called on the frame it returned,   *)
(* a sanitizer returns a frame equal to it cell for cell, so a value       *)
(* truncated or serialised once is not truncated or altered again.         *)
C24_SanitizersIdempotent ==
    [][ (harness = "sanitize" /\ pc = "done" /\ pc' = "again") =>
            /\ Len(df_again') = Len(df_sanitized)
            /\ \A c \in 1..Len(df_sanitized) :
                  /\ Len(df_again'[c]) = Len(df_sanitized[c])
                  /\ \A i \in 1..Len(df_sanitized[c]) :
                        df_again'[c][i] = df_sanitized[c][i] ]_vars

C24_Witness ==
    /\ harness = "sanitize" /\ pc = "again" /\ sanitizer = "sanitize_for_excel"
    /\ df[1] = <<Text("https://", 40000), LongList>>
    /\ df_sanitized[1] = <<Text("https://", MAX_URL_LENGTH),
                           Text("[\"", MAX_CELL_LENGTH)>>
    /\ df_again = df_sanitized

=============================================================================
